---- MODULE Spec2Model ----
(***************************************************************************)
(* Model of src/rate_limiter.py: the TokenBucket rate limiter, its global  *)
(* lock, the per-key bucket dictionary and the module-level                *)
(* dead_letter_queue, called by concurrent threads; and of                 *)
(* src/file_management_system.py: the FileManager, its file table, users,  *)
(* file ownership and the module-level BACKUP.                             *)
(*                                                                         *)
(* Arithmetic.  The code computes with floats (seconds, tokens).  The      *)
(* model computes exactly, in fixed point: time is counted in clock ticks  *)
(* of 1/TicksPerSecond seconds and tokens in units of 1/TicksPerSecond     *)
(* token, so that  fill_rate * elapsed  (tokens per second times seconds)  *)
(* is the integer  fill_rate * elapsed_ticks  in token units and one whole *)
(* token is One = TicksPerSecond units.  capacity is kept in whole tokens, *)
(* as in the code, and converted where it is compared with tokens.         *)
(***************************************************************************)
EXTENDS Integers, Sequences, FiniteSets, TLC

\* ---------------------------------------------------------------- bounds
MaxTime == 3
MaxRequests == 3
\* FileManager: successful add_user calls in a run
MaxAddUser == 2

\* ------------------------------------------------------------- constants
\* the clock is read in ticks of 0.2 s: with the fill rate 5 of the main
\* program one tick refills one token
TicksPerSecond == 5
One == TicksPerSecond
InitFillRate == 5
InitCapacity == 10

\* two of the calling threads and two of the user ids of the main program;
\* any thread may call for any key
Threads == {"t1", "t2"}
Keys == {"usr_1", "usr_2"}
\* the values the configuration is updated to: 8 tokens per second gives
\* fractional tokens (1.6 per tick), capacity 2 is below what a bucket
\* filled under capacity 10 holds
FillRateValues == {5, 8}
CapacityValues == {2, 10}

NoThread == "none"

\* ------------------------------------------------------------ data types
Request(user_id, req_id) == [user_id |-> user_id, req_id |-> req_id]

Token(used, last_used_at) == [used |-> used, last_used_at |-> last_used_at]

key_func(req) == req.user_id

Min(a, b) == IF a <= b THEN a ELSE b

VARIABLES
    fill_rate,          \* self.fill_rate   (tokens per second)
    capacity,           \* self.capacity    (whole tokens)
    bucket,             \* self.__bucket : dict key -> Token (used in token units)
    lock,               \* self.lock : the thread holding it, or NoThread
    dead_letter_queue,  \* module-level deque of rejected requests
    now,                \* the clock read by time.time(), in ticks
    issued,             \* number of Request objects created so far
    pc,                 \* position of each thread in is_request_allowed
    frame,              \* local variables of each thread's call
    sequential,         \* the same calls run one after another, in decision order
    admitted,           \* number of calls that returned (True, "Allowed")
    denials,            \* the requests denied, in the order of the decisions
    burst               \* per key: calls made and admitted at the current clock
                        \* reading under the configuration now in force

vars == <<fill_rate, capacity, bucket, lock, dead_letter_queue, now, issued,
          pc, frame, sequential, admitted, denials, burst>>

NoFrame == [request |-> Request("", -1), key |-> "", time_now |-> 0,
            last_successful_token |-> Token(0, 0), elapsed |-> 0,
            fill_rate |-> 0, refill |-> 0, capacity |-> 0, new_token |-> 0]

InCriticalSection(t) == pc[t] \in {"refill", "decide"}

\* ------------------------------------------------- the steps of the code
\* line 91: the lock can be entered
LockIgnored(t) == TRUE
LockFree(t) == lock = NoThread

\* line 93: the Token a never-seen key starts with
TokenFull(time_now) == Token(InitCapacity * One, time_now)
NewToken(time_now) == Token(0, time_now)

\* lines 92-93: the bucket dictionary after the lookup of the key
AlwaysCreate(b, key, time_now) ==
    (key :> NewToken(time_now)) @@ [k \in DOMAIN b \ {key} |-> b[k]]
LookupOrCreate(b, key, time_now) ==
    IF key \in DOMAIN b THEN b ELSE (key :> NewToken(time_now)) @@ b

\* line 96
Elapsed(time_now, last_used_at) == time_now - last_used_at

\* line 99
Refill(rate, elapsed) == rate * elapsed

\* line 100
CandidateUnclamped(cap, used, refill) == used + refill
CandidateInitCapacity(cap, used, refill) == Min(InitCapacity * One, used + refill)
Candidate(cap, used, refill) == Min(cap * One, used + refill)

\* line 102
AllowedGeq(new_token) == new_token >= One
Allowed(new_token) == new_token > One

\* line 108
SpendNothing(new_token) == new_token
Spend(new_token) == new_token - One

\* line 109
StoreTokenEverywhere(b, k, tok) == [x \in DOMAIN b |-> tok]
StoreToken(b, k, tok) == [b EXCEPT ![k] = tok]

\* lines 104-109: the bucket dictionary after the decision
CommitAlways(b, k, allowed, tok) == StoreToken(b, k, tok)
Commit(b, k, allowed, tok) == IF allowed THEN StoreToken(b, k, tok) ELSE b

\* lines 104-105: the dead letter queue after the decision
RejectFirst(q, allowed, req) == IF allowed THEN q ELSE <<req>> \o q
Reject(q, allowed, req) == IF allowed THEN q ELSE Append(q, req)

\* lines 106, 111: leaving the with block on return releases the lock
ReleaseWhenAllowed(t, allowed) == IF allowed THEN NoThread ELSE t
Release(t, allowed) == NoThread

\* lines 92-111 as one uninterrupted evaluation: the bucket dictionary it
\* leaves and its verdict, for the configuration values it reads
is_request_allowed(b, key, time_now, rate, cap) ==
    LET b1 == LookupOrCreate(b, key, time_now)
        last_successful_token == b1[key]
        elapsed == Elapsed(time_now, last_successful_token.last_used_at)
        new_token == Candidate(cap, last_successful_token.used, Refill(rate, elapsed))
        allowed == Allowed(new_token)
    IN [bucket |-> Commit(b1, key, allowed, Token(Spend(new_token), time_now)),
        allowed |-> allowed]

\* ------------------------------------------------------------ FileManager
\* float('inf'), the capacity of admin (line 47): above every sum of sizes
\* and capacities the model reaches
inf == 1000

\* the user names, file names, sizes and capacities the calls are made with
Users == {"admin", "user1", "user2"}
FileNames == {"a", "ab", "b"}
FileSizes == {1, 2}
UserCaps == {2}

\* the characters of each file name, as code points: str comparison goes by
\* them
Chars == ("a" :> <<97>>) @@ ("ab" :> <<97, 98>>) @@ ("b" :> <<98>>)

File(file_name, file_size) == [file_name |-> file_name, file_size |-> file_size]

VARIABLES
    files_by_id,    \* self.__files_by_id : dict file name -> size
    user_cap,       \* self.__user_cap : dict user name -> capacity
    files_by_user,  \* self.__files_by_user : user name -> set of file names;
                    \* a missing entry of the defaultdict is the empty set
    BACKUP,         \* module-level dict user name -> snapshot (Files)
    ret,            \* what the last call returned, or that it raised
    added           \* number of add_user calls that added a user

fvars == <<files_by_id, user_cap, files_by_user, BACKUP, ret, added>>

allvars == <<vars, fvars>>

\* -------------------------------------------------------------- actions
Init ==
    /\ files_by_id = <<>>
    /\ user_cap = ("admin" :> inf)
    /\ files_by_user = [u \in Users |-> {}]
    /\ BACKUP = <<>>
    /\ ret = [val |-> 0, files |-> <<>>, raised |-> FALSE]
    /\ added = 0
    /\ fill_rate = InitFillRate
    /\ capacity = InitCapacity
    /\ bucket = <<>>
    /\ lock = NoThread
    /\ dead_letter_queue = <<>>
    /\ now = 0
    /\ issued = 0
    /\ pc = [t \in Threads |-> "idle"]
    /\ frame = [t \in Threads |-> NoFrame]
    /\ sequential = [bucket |-> <<>>, admitted |-> 0]
    /\ admitted = 0
    /\ denials = <<>>
    /\ burst = [k \in Keys |-> 0]

\* lines 79-80
update_fill_rate(r) ==
    /\ fill_rate' = r
    /\ burst' = [k \in Keys |-> 0]
    /\ UNCHANGED <<capacity, bucket, lock, dead_letter_queue, now, issued, pc,
                   frame, sequential, admitted, denials>>
    /\ UNCHANGED fvars

\* lines 83-84
update_capacity(c) ==
    /\ capacity' = c
    /\ burst' = [k \in Keys |-> 0]
    /\ UNCHANGED <<fill_rate, bucket, lock, dead_letter_queue, now, issued, pc,
                   frame, sequential, admitted, denials>>
    /\ UNCHANGED fvars

\* the clock advances by one tick
Tick ==
    /\ now < MaxTime
    /\ now' = now + 1
    /\ burst' = [k \in Keys |-> 0]
    /\ UNCHANGED <<fill_rate, capacity, bucket, lock, dead_letter_queue, issued,
                   pc, frame, sequential, admitted, denials>>
    /\ UNCHANGED fvars

\* lines 115-116, 88-89: a thread creates a request and enters
\* is_request_allowed: the key and the time are taken before the lock
Call(t, user_id) ==
    /\ pc[t] = "idle"
    /\ issued < MaxRequests
    /\ LET req == Request(user_id, issued)
       IN frame' = [frame EXCEPT ![t] = [NoFrame EXCEPT !.request = req,
                                                        !.key = key_func(req),
                                                        !.time_now = now]]
    /\ issued' = issued + 1
    /\ pc' = [pc EXCEPT ![t] = "acquire"]
    /\ UNCHANGED <<fill_rate, capacity, bucket, lock, dead_letter_queue, now,
                   sequential, admitted, denials, burst>>
    /\ UNCHANGED fvars

\* line 91: with self.lock
Acquire(t) ==
    /\ pc[t] = "acquire"
    /\ LockFree(t)
    /\ lock' = t
    /\ pc' = [pc EXCEPT ![t] = "refill"]
    /\ UNCHANGED <<fill_rate, capacity, bucket, dead_letter_queue, now, issued,
                   frame, sequential, admitted, denials, burst>>
    /\ UNCHANGED fvars

\* lines 92-101: create the bucket of a never-seen key, read it, compute the
\* refill from self.fill_rate (line 99) and clamp it to self.capacity
\* (line 100).  The two configuration reads are taken in one step: the
\* updates are free to run in any order before it, so every pair of values
\* the two reads can see is seen.
RefillStep(t) ==
    /\ pc[t] = "refill"
    /\ LET f == frame[t]
           b == LookupOrCreate(bucket, f.key, f.time_now)
           tok == b[f.key]
           el == Elapsed(f.time_now, tok.last_used_at)
           re == Refill(fill_rate, el)
       IN /\ bucket' = b
          /\ frame' = [frame EXCEPT ![t] =
                          [f EXCEPT !.last_successful_token = tok,
                                    !.elapsed = el,
                                    !.fill_rate = fill_rate,
                                    !.refill = re,
                                    !.capacity = capacity,
                                    !.new_token = Candidate(capacity, tok.used, re)]]
    /\ pc' = [pc EXCEPT ![t] = "decide"]
    /\ UNCHANGED <<fill_rate, capacity, lock, dead_letter_queue, now, issued,
                   sequential, admitted, denials, burst>>
    /\ UNCHANGED fvars

\* lines 102-111: decide, reject or store, leave the with block and return
DecideStep(t) ==
    /\ pc[t] = "decide"
    /\ LET f == frame[t]
           allowed == Allowed(f.new_token)
           seq == is_request_allowed(sequential.bucket, f.key, f.time_now,
                                     f.fill_rate, f.capacity)
       IN /\ dead_letter_queue' = Reject(dead_letter_queue, allowed, f.request)
          /\ bucket' = Commit(bucket, f.key, allowed,
                              Token(Spend(f.new_token), f.time_now))
          /\ sequential' = [bucket |-> seq.bucket,
                            admitted |-> sequential.admitted
                                           + (IF seq.allowed THEN 1 ELSE 0)]
          /\ admitted' = admitted + (IF allowed THEN 1 ELSE 0)
          /\ denials' = IF allowed THEN denials ELSE Append(denials, f.request)
          /\ burst' = IF allowed /\ f.time_now = now
                         /\ f.fill_rate = fill_rate /\ f.capacity = capacity
                      THEN [burst EXCEPT ![f.key] = @ + 1]
                      ELSE burst
          /\ lock' = Release(t, allowed)
    /\ frame' = [frame EXCEPT ![t] = NoFrame]
    /\ pc' = [pc EXCEPT ![t] = "idle"]
    /\ UNCHANGED <<fill_rate, capacity, now, issued>>
    /\ UNCHANGED fvars

Next ==
    \/ \E r \in FillRateValues : update_fill_rate(r)
    \/ \E c \in CapacityValues : update_capacity(c)
    \/ Tick
    \/ \E t \in Threads, k \in Keys : Call(t, k)
    \/ \E t \in Threads : Acquire(t)
    \/ \E t \in Threads : RefillStep(t)
    \/ \E t \in Threads : DecideStep(t)

Spec == Init /\ [][Next]_allvars

\* ------------------------------------------------- FileManager: helpers
\* dict operations: k in d, del d[k], d[k] = v
Has(d, k) == k \in DOMAIN d
Del(d, k) == [x \in DOMAIN d \ {k} |-> d[x]]
Put(d, k, v) == (k :> v) @@ d

\* a read d[k] of a defaultdict(int) stores 0 under a missing key
WithDefaults(d, ks) == d @@ [k \in ks |-> 0]

\* a + b on capacities, one of which may be float('inf')
Plus(a, b) == IF a >= inf \/ b >= inf THEN inf ELSE a + b

\* sum(self.__files_by_id[f] for f in names)
RECURSIVE Sum(_, _)
Sum(d, names) ==
    IF names = {} THEN 0
    ELSE LET f == CHOOSE x \in names : TRUE
         IN  d[f] + Sum(d, names \ {f})

\* what a call hands back: a number, a list of Files, or an exception
Returned(v) == [val |-> v, files |-> <<>>, raised |-> FALSE]
ReturnedFiles(fs) == [val |-> Len(fs), files |-> fs, raised |-> FALSE]
Raised == [val |-> 0, files |-> <<>>, raised |-> TRUE]

\* str < str: the first differing character decides, a proper prefix is
\* smaller
RECURSIVE SeqLess(_, _)
SeqLess(s, t) ==
    IF t = <<>> THEN FALSE
    ELSE IF s = <<>> THEN TRUE
    ELSE IF Head(s) # Head(t) THEN Head(s) < Head(t)
    ELSE SeqLess(Tail(s), Tail(t))

StrLess(a, b) == SeqLess(Chars[a], Chars[b])

\* File.__lt__ (line 37)
SizeOnly(self, other) == self.file_size > other.file_size
File_lt(self, other) ==
    \/ self.file_size > other.file_size
    \/ self.file_size = other.file_size /\ StrLess(self.file_name, other.file_name)

\* sorted(files): each File is put before the first one it is smaller than
RECURSIVE Insert(_, _)
Insert(s, x) ==
    IF s = <<>> THEN <<x>>
    ELSE IF File_lt(x, Head(s)) THEN <<x>> \o s
    ELSE <<Head(s)>> \o Insert(Tail(s), x)

RECURSIVE sorted(_)
sorted(S) ==
    IF S = {} THEN <<>>
    ELSE LET x == CHOOSE y \in S : TRUE
         IN  Insert(sorted(S \ {x}), x)

\* sorted_files[:top_n], for top_n >= 0
Prefix(s, n) == SubSeq(s, 1, Min(n, Len(s)))

\* the check of line 106
OverAlways(total_used, file_size, cap) == total_used + file_size >= cap
OverCapacity(total_used, file_size, cap) == total_used + file_size > cap

\* the dict file_owner of lines 146-149.  Each file has at most one owner
\* (OneOwner below), so the order of the loop does not matter
file_owner(name, default) ==
    IF \E u \in Users : name \in files_by_user[u]
    THEN CHOOSE u \in Users : name \in files_by_user[u]
    ELSE default

\* the file names of a snapshot
Names(snapshot) == {f.file_name : f \in snapshot}

\* ------------------------------------------------- FileManager: actions
\* lines 53-64
create_file(file_name, file_size) ==
    /\ IF Has(files_by_id, file_name)
       THEN /\ ret' = Returned(-1)
            /\ UNCHANGED files_by_id
       ELSE /\ files_by_id' = Put(files_by_id, file_name, file_size)
            /\ ret' = Returned(file_size)
    /\ UNCHANGED <<user_cap, files_by_user, BACKUP, added>>
    /\ UNCHANGED vars

\* lines 66-82
remove_file(file_name) ==
    /\ IF ~Has(files_by_id, file_name)
       THEN /\ ret' = Returned(-1)
            /\ UNCHANGED <<files_by_id, files_by_user>>
       ELSE /\ files_by_user' = [u \in Users |-> files_by_user[u] \ {file_name}]
            /\ files_by_id' = Del(files_by_id, file_name)
            /\ ret' = Returned(files_by_id[file_name])
    /\ UNCHANGED <<user_cap, BACKUP, added>>
    /\ UNCHANGED vars

\* lines 85-89
list_n_files_by_default_order(top_n) ==
    /\ LET files == {File(k, files_by_id[k]) : k \in DOMAIN files_by_id}
       IN  ret' = ReturnedFiles(Prefix(sorted(files), top_n))
    /\ UNCHANGED <<files_by_id, user_cap, files_by_user, BACKUP, added>>
    /\ UNCHANGED vars

\* lines 92-97
add_user(user_name, cap) ==
    /\ added < MaxAddUser
    /\ IF Has(user_cap, user_name)
       THEN /\ ret' = Returned(-1)
            /\ UNCHANGED <<user_cap, added>>
       ELSE /\ user_cap' = Put(user_cap, user_name, cap)
            /\ added' = added + 1
            /\ ret' = Returned(cap)
    /\ UNCHANGED <<files_by_id, files_by_user, BACKUP>>
    /\ UNCHANGED vars

\* lines 99-112
add_file_by_user(user_name, file_name, file_size) ==
    /\ IF ~Has(user_cap, user_name)
       THEN /\ ret' = Returned(-1)
            /\ UNCHANGED <<files_by_id, files_by_user>>
       ELSE LET owned == files_by_user[user_name]
                read == WithDefaults(files_by_id, owned)
                total_used == Sum(read, owned)
            IN  IF OverCapacity(total_used, file_size, user_cap[user_name])
                THEN /\ ret' = Returned(-1)
                     /\ files_by_id' = read
                     /\ UNCHANGED files_by_user
                ELSE IF Has(read, file_name)
                THEN /\ ret' = Returned(-1)
                     /\ files_by_id' = read
                     /\ UNCHANGED files_by_user
                ELSE /\ files_by_id' = Put(read, file_name, file_size)
                     /\ files_by_user' =
                            [files_by_user EXCEPT ![user_name] = @ \cup {file_name}]
                     /\ ret' = Returned(file_size)
    /\ UNCHANGED <<user_cap, BACKUP, added>>
    /\ UNCHANGED vars

\* line 126, and from_user = to_user: the entry is only dropped
DropNothing(fbu, from_user) == fbu
DropFiles(fbu, from_user) == [fbu EXCEPT ![from_user] = {}]

\* lines 118-128
merge_users(to_user, from_user) ==
    /\ IF ~Has(user_cap, to_user) \/ ~Has(user_cap, from_user)
       THEN /\ ret' = Returned(-1)
            /\ UNCHANGED <<user_cap, files_by_user>>
       ELSE LET summed == Put(user_cap, to_user,
                              Plus(user_cap[to_user], user_cap[from_user]))
                deleted == Del(summed, from_user)
                united == [files_by_user EXCEPT
                              ![to_user] = @ \cup files_by_user[from_user]]
                \* line 128 reads the defaultdict
                read == WithDefaults(deleted, {to_user})
            IN  /\ user_cap' = read
                /\ files_by_user' = DropFiles(united, from_user)
                /\ ret' = Returned(read[to_user])
    /\ UNCHANGED <<files_by_id, BACKUP, added>>
    /\ UNCHANGED vars

\* lines 131-134
backup(user_name) ==
    /\ LET owned == files_by_user[user_name]
           read == WithDefaults(files_by_id, owned)
           snapshot == {File(f, read[f]) : f \in owned}
       IN  /\ files_by_id' = read
           /\ BACKUP' = Put(BACKUP, user_name, snapshot)
           /\ ret' = Returned(Sum(read, owned))
    /\ UNCHANGED <<user_cap, files_by_user, added>>
    /\ UNCHANGED vars

\* line 156: the snapshot files that are put back
KeepAll(snapshot, user_name) == snapshot
Restorable(snapshot, user_name) ==
    {f \in snapshot : file_owner(f.file_name, user_name) = user_name}

\* lines 136-165.  add_user(user_name) of line 141 lacks the argument
\* user_cap: the call raises TypeError before anything is changed
restore(user_name) ==
    /\ IF ~Has(BACKUP, user_name)
       THEN /\ ret' = Returned(-1)
            /\ UNCHANGED <<files_by_id, files_by_user>>
       ELSE IF ~Has(user_cap, user_name)
       THEN /\ ret' = Raised
            /\ UNCHANGED <<files_by_id, files_by_user>>
       ELSE LET snapshot == BACKUP[user_name]
                current_set == files_by_user[user_name]
                to_delete == current_set \ Names(snapshot)
                kept == Restorable(snapshot, user_name)
                written == [k \in Names(kept) |->
                               (CHOOSE f \in kept : f.file_name = k).file_size]
                           @@ files_by_id
                new_set == (current_set \cup Names(kept)) \ to_delete
                new_files == [k \in DOMAIN written \ to_delete |-> written[k]]
            IN  /\ files_by_user' = [files_by_user EXCEPT ![user_name] = new_set]
                /\ files_by_id' = new_files
                /\ ret' = Returned(Sum(new_files, new_set))
    /\ UNCHANGED <<user_cap, BACKUP, added>>
    /\ UNCHANGED vars

\* the numbers list_n_files_by_default_order is called with
TopNs == 0 .. 4

\* the file names the calls of a run with users are made with
StoredNames == {"a", "b"}
\* the users merge_users is called to merge away: admin is kept
MergedUsers == Users \ {"admin"}
\* the users backup and restore are called for
BackupUsers == {"user1"}

FileNext ==
    \/ \E f \in StoredNames, s \in FileSizes : create_file(f, s)
    \/ \E f \in StoredNames : remove_file(f)
    \/ \E u \in Users, c \in UserCaps : add_user(u, c)
    \/ \E u \in Users, f \in StoredNames, s \in FileSizes : add_file_by_user(u, f, s)
    \/ \E u \in Users, v \in MergedUsers : merge_users(u, v)
    \/ \E u \in BackupUsers : backup(u)
    \/ \E u \in BackupUsers : restore(u)

FileSpec == Init /\ [][FileNext]_allvars

\* create_file, remove_file and the listing alone
ListNext ==
    \/ \E f \in FileNames, s \in FileSizes : create_file(f, s)
    \/ \E f \in FileNames : remove_file(f)
    \/ \E n \in TopNs : list_n_files_by_default_order(n)

ListSpec == Init /\ [][ListNext]_allvars

\* the calls alone, under the configuration of the main program: the two
\* updates take no lock and no step of a call waits for them
NextCalls ==
    \/ Tick
    \/ \E t \in Threads, k \in Keys : Call(t, k)
    \/ \E t \in Threads : Acquire(t)
    \/ \E t \in Threads : RefillStep(t)
    \/ \E t \in Threads : DecideStep(t)

\* the calls are scheduled fairly: a thread that can go on inside the lock
\* does, and a thread that waits for a lock that is free again and again
\* gets it
FairSpec ==
    /\ Init /\ [][NextCalls]_allvars
    /\ \A t \in Threads :
          SF_allvars(Acquire(t)) /\ WF_allvars(RefillStep(t)) /\ WF_allvars(DecideStep(t))

\* lines 71-84 with any argument: the values a caller may pass to the
\* constructor and to the two updates
FillRateInputs == {-1, 0, 5}
CapacityInputs == {-1, 0, 10}

InitBoundary ==
    /\ fill_rate \in FillRateInputs
    /\ capacity \in CapacityInputs
    /\ bucket = <<>>
    /\ lock = NoThread
    /\ dead_letter_queue = <<>>
    /\ now = 0
    /\ issued = 0
    /\ pc = [t \in Threads |-> "idle"]
    /\ frame = [t \in Threads |-> NoFrame]
    /\ sequential = [bucket |-> <<>>, admitted |-> 0]
    /\ admitted = 0
    /\ denials = <<>>
    /\ burst = [k \in Keys |-> 0]
    /\ files_by_id = <<>>
    /\ user_cap = ("admin" :> inf)
    /\ files_by_user = [u \in Users |-> {}]
    /\ BACKUP = <<>>
    /\ ret = [val |-> 0, files |-> <<>>, raised |-> FALSE]
    /\ added = 0

NextBoundary ==
    \/ \E r \in FillRateInputs : update_fill_rate(r)
    \/ \E c \in CapacityInputs : update_capacity(c)
    \/ Tick
    \/ \E t \in Threads, k \in Keys : Call(t, k)
    \/ \E t \in Threads : Acquire(t)
    \/ \E t \in Threads : RefillStep(t)
    \/ \E t \in Threads : DecideStep(t)

SpecBoundary == InitBoundary /\ [][NextBoundary]_allvars

TypeOK ==
    /\ fill_rate \in FillRateValues
    /\ capacity \in CapacityValues
    /\ DOMAIN bucket \subseteq Keys
    /\ lock \in Threads \cup {NoThread}
    /\ now \in 0..MaxTime
    /\ issued \in 0..MaxRequests

\* ------------------------------------------------------------- properties
\* the step in which thread t runs lines 92-101, and the one in which it
\* runs lines 102-111
Refilled(t) == pc[t] = "refill" /\ pc'[t] = "decide"
Decided(t) == pc[t] = "decide" /\ pc'[t] = "idle"

\* C1: evaluations are never interleaved: at most one thread is between
\* lines 92 and 111 and it holds the lock, the Token it read is still the
\* stored one when it decides, and the calls admitted and the buckets left
\* are those of the same calls run one after another in decision order.
C1_Linearized ==
    /\ \A t1, t2 \in Threads :
          InCriticalSection(t1) /\ InCriticalSection(t2) => t1 = t2
    /\ \A t \in Threads : InCriticalSection(t) => lock = t
    /\ \A t \in Threads :
          pc[t] = "decide" =>
             /\ frame[t].key \in DOMAIN bucket
             /\ bucket[frame[t].key] = frame[t].last_successful_token
    /\ admitted = sequential.admitted
    /\ (\A t \in Threads : pc[t] # "decide") => bucket = sequential.bucket

\* two calls for one key at one time are in flight, with more than one but
\* at most two tokens to share: one has computed its candidate, the other
\* waits for the lock
C1_Witness ==
    \E t1, t2 \in Threads :
       /\ pc[t1] = "decide" /\ pc[t2] = "acquire"
       /\ frame[t1].key = frame[t2].key
       /\ frame[t1].time_now = frame[t2].time_now
       /\ frame[t1].new_token > One /\ frame[t1].new_token <= 2 * One

\* C2 (as claimed): no step of a denied evaluation changes the bucket
\* dictionary, so the stored Token is as it was before the evaluation.
C2_Original ==
    [][\A t \in Threads :
          /\ Refilled(t) /\ ~Allowed(frame'[t].new_token) => bucket' = bucket
          /\ Decided(t) /\ ~Allowed(frame[t].new_token) => bucket' = bucket]_vars

\* C2 (amended): a denied evaluation of a key that has a bucket leaves the
\* bucket dictionary as it was; a denied evaluation of a never-seen key adds
\* Token(0, its own timestamp) and nothing else; and a stored Token changes
\* only in an admitted call, which stamps it with its own timestamp, so that
\* last_used_at is the time of the last admitted call, or of the creating
\* call when none was admitted yet.
C2_DeniedKeepsBucket ==
    [][/\ \A t \in Threads :
             /\ Refilled(t) /\ ~Allowed(frame'[t].new_token) =>
                   IF frame[t].key \in DOMAIN bucket
                   THEN bucket' = bucket
                   ELSE bucket' = (frame[t].key :> Token(0, frame[t].time_now)) @@ bucket
             /\ Decided(t) /\ ~Allowed(frame[t].new_token) => bucket' = bucket
       /\ \A k \in DOMAIN bucket :
             (k \in DOMAIN bucket' /\ bucket'[k] # bucket[k]) =>
                \E t \in Threads :
                   /\ Decided(t) /\ frame[t].key = k
                   /\ Allowed(frame[t].new_token)
                   /\ bucket'[k].last_used_at = frame[t].time_now]_vars

\* a key was created by a denied call, admitted once, and denied again
\* while its bucket existed
C2_Witness ==
    \E k \in DOMAIN bucket :
       /\ bucket[k].used > 0
       /\ \E i, j \in 1..Len(denials) :
             i < j /\ denials[i].user_id = k /\ denials[j].user_id = k

\* C3: a call is allowed exactly when min(capacity, stored tokens +
\* fill_rate * elapsed) is more than one token, for the configuration
\* values the call read; a candidate of exactly one token is denied; an
\* allowed call stores the candidate less one token with its timestamp, a
\* denied one stores nothing and is appended to the dead letter queue.
C3_Threshold ==
    [][\A t \in Threads :
          Decided(t) =>
             LET f == frame[t]
                 stored == bucket[f.key]
                 candidateTokens ==
                     Min(f.capacity * One,
                         stored.used + f.fill_rate * (f.time_now - stored.last_used_at))
             IN /\ (admitted' = admitted + 1) <=> (candidateTokens > One)
                /\ (admitted' = admitted) <=> (candidateTokens <= One)
                /\ candidateTokens > One =>
                      /\ bucket' = [bucket EXCEPT ![f.key] =
                                       Token(candidateTokens - One, f.time_now)]
                      /\ dead_letter_queue' = dead_letter_queue
                /\ candidateTokens <= One =>
                      /\ bucket' = bucket
                      /\ dead_letter_queue' = Append(dead_letter_queue, f.request)]_vars

\* an evaluation has computed a candidate of exactly one token from a
\* positive refill
C3_Witness ==
    \E t \in Threads :
       /\ pc[t] = "decide"
       /\ frame[t].new_token = One
       /\ frame[t].refill > 0

\* C4 (as claimed): the candidate a decision is taken on never exceeds the
\* configured capacity, and right after a bucket write the stored tokens are
\* between 0 and the configured capacity, in any interleaving of
\* is_request_allowed and update_capacity.
C4_Original ==
    [][\A t \in Threads :
          /\ (Refilled(t) /\ bucket' # bucket) =>
                /\ bucket'[frame[t].key].used >= 0
                /\ bucket'[frame[t].key].used <= capacity' * One
          /\ Decided(t) =>
                /\ frame[t].new_token <= capacity * One
                /\ bucket' # bucket =>
                      /\ bucket'[frame[t].key].used >= 0
                      /\ bucket'[frame[t].key].used <= capacity' * One]_vars

\* C4 (amended): the candidate a decision is taken on never exceeds the
\* capacity that evaluation read at line 100, and right after a bucket write
\* the stored tokens are between 0 and the capacity the writing evaluation
\* read (the configured capacity unless update_capacity ran between that read
\* and the write); every stored token count is >= 0.  This holds in any
\* interleaving and for any elapsed gap.
C4_ClampToReadCapacity ==
    [][/\ \A t \in Threads :
             /\ Refilled(t) =>
                   /\ frame'[t].new_token <= capacity * One
                   /\ frame'[t].capacity = capacity
                   /\ bucket' # bucket =>
                         bucket'[frame[t].key].used <= capacity * One
             /\ Decided(t) =>
                   /\ frame[t].new_token <= frame[t].capacity * One
                   /\ bucket' # bucket =>
                         bucket'[frame[t].key].used <= frame[t].capacity * One
       /\ \A k \in DOMAIN bucket' : bucket'[k].used >= 0]_vars

\* an evaluation after a long gap: tokens plus refill exceed the capacity
\* and the candidate is the capacity
C4_Witness ==
    \E t \in Threads :
       /\ pc[t] = "decide"
       /\ frame[t].last_successful_token.used + frame[t].refill
             > frame[t].capacity * One
       /\ frame[t].new_token = frame[t].capacity * One

\* C5: the dead letter queue holds the denied requests, each once, in the
\* order of the denial decisions, and no admitted request: with the admitted
\* calls it accounts for every call that has returned.
C5_RejectionSink ==
    /\ dead_letter_queue = denials
    /\ \A i, j \in 1..Len(dead_letter_queue) :
          dead_letter_queue[i] = dead_letter_queue[j] => i = j
    /\ Len(dead_letter_queue) + admitted
          = issued - Cardinality({t \in Threads : pc[t] # "idle"})

\* requests of two keys were denied and one was admitted
C5_Witness ==
    /\ Len(dead_letter_queue) >= 2
    /\ dead_letter_queue[1].user_id # dead_letter_queue[2].user_id
    /\ admitted >= 1

\* C6: a step of a call for one key leaves the bucket of every other key
\* as it is, and adds no entry but that of its own key.
C6_PerKeyIndependence ==
    [][\A t \in Threads :
          (InCriticalSection(t) /\ pc'[t] # pc[t]) =>
             /\ DOMAIN bucket' \subseteq DOMAIN bucket \cup {frame[t].key}
             /\ \A k \in DOMAIN bucket :
                   k # frame[t].key => k \in DOMAIN bucket' /\ bucket'[k] = bucket[k]]_vars

\* a call of one key is about to be admitted while another key has a bucket
\* with other contents
C6_Witness ==
    \E t \in Threads, k \in DOMAIN bucket :
       /\ pc[t] = "decide"
       /\ k # frame[t].key
       /\ Allowed(frame[t].new_token)
       /\ bucket[k] # Token(Spend(frame[t].new_token), frame[t].time_now)

\* C7: the elapsed time an evaluation uses for the refill is >= 0, so the
\* refill never takes tokens away, also when callers take their time before
\* the lock and enter the critical section in the opposite order.
C7_ElapsedNonNegative ==
    \A t \in Threads :
       pc[t] = "decide" => frame[t].elapsed >= 0 /\ frame[t].refill >= 0

\* the 0.4 s of the claim, in clock ticks
WaitTicks == (2 * TicksPerSecond) \div 5

\* C8 (as claimed): with capacity 10 and fill rate 5 the call that creates
\* the bucket of a never-seen key stores Token(0, call time) and is denied,
\* and a call that comes 0.4 s or more after it is allowed and leaves one
\* token.
C8_Original ==
    [][\A t \in Threads :
          /\ (Refilled(t) /\ frame[t].key \notin DOMAIN bucket) =>
                /\ bucket' = (frame[t].key :> Token(0, frame[t].time_now)) @@ bucket
                /\ ~Allowed(frame'[t].new_token)
          /\ (/\ Decided(t)
              /\ frame[t].fill_rate = InitFillRate
              /\ frame[t].capacity = InitCapacity
              /\ bucket[frame[t].key].used = 0
              /\ frame[t].time_now - bucket[frame[t].key].last_used_at >= WaitTicks) =>
                /\ admitted' = admitted + 1
                /\ bucket'[frame[t].key] = Token(One, frame[t].time_now)]_vars

\* C8 (amended): with capacity 10 and fill rate 5 the call that creates the
\* bucket of a never-seen key stores Token(0, call time) and is denied, and
\* a call that comes 0.4 s or more after it is allowed and leaves
\* min(10, 5 * elapsed) - 1 tokens, which is one token when the wait is
\* exactly 0.4 s.
C8_FreshKey ==
    [][\A t \in Threads :
          /\ (Refilled(t) /\ frame[t].key \notin DOMAIN bucket) =>
                /\ bucket' = (frame[t].key :> Token(0, frame[t].time_now)) @@ bucket
                /\ ~Allowed(frame'[t].new_token)
          /\ (/\ Decided(t)
              /\ frame[t].fill_rate = InitFillRate
              /\ frame[t].capacity = InitCapacity
              /\ bucket[frame[t].key].used = 0
              /\ frame[t].time_now - bucket[frame[t].key].last_used_at >= WaitTicks) =>
                LET wait == frame[t].time_now - bucket[frame[t].key].last_used_at
                    left == Min(InitCapacity * One, InitFillRate * wait) - One
                IN /\ admitted' = admitted + 1
                   /\ bucket'[frame[t].key] = Token(left, frame[t].time_now)
                   /\ wait = WaitTicks => left = One]_vars

\* with capacity 10 and fill rate 5, a call 0.4 s after the denied call that
\* created its key's bucket has computed a candidate of two tokens
C8_Witness ==
    \E t \in Threads :
       /\ pc[t] = "decide"
       /\ Len(denials) >= 1 /\ denials[1].user_id = frame[t].key
       /\ frame[t].fill_rate = InitFillRate
       /\ frame[t].capacity = InitCapacity
       /\ frame[t].last_successful_token.used = 0
       /\ frame[t].elapsed = WaitTicks
       /\ frame[t].new_token = 2 * One

\* C9: under one configuration the calls of one key made and admitted at
\* one clock reading are fewer than capacity (each spends a stored token and
\* the last token is never spent), and no call is admitted on a candidate of
\* one token or less.
C9_BurstBound ==
    [][/\ \A k \in Keys : burst'[k] + 1 <= capacity'
       /\ \A t \in Threads :
             (Decided(t) /\ frame[t].new_token <= One) =>
                admitted' = admitted /\ burst' = burst]_vars

\* a burst of two admitted calls of one key
C9_Witness == \E k \in Keys : burst[k] >= 2

\* C10 (as claimed): once update_capacity(c) has run, a decision about a key
\* whose stored tokens exceed c is taken on a candidate <= c, and what is
\* stored then is <= c.
C10_Original ==
    [][\A t \in Threads :
          (Decided(t) /\ bucket[frame[t].key].used > capacity * One) =>
             /\ frame[t].new_token <= capacity * One
             /\ bucket' # bucket => bucket'[frame[t].key].used <= capacity * One]_vars

\* C10 (amended): an evaluation that reads the capacity (line 100) after
\* update_capacity(c) has run clamps its candidate to <= c there, before the
\* decision, decides on it and stores less than c; an evaluation that had
\* read the capacity before update_capacity ran still decides on, and may
\* store, its candidate above c.
C10_ClampAfterUpdate ==
    [][\A t \in Threads :
          /\ (/\ Refilled(t)
              /\ frame[t].key \in DOMAIN bucket
              /\ bucket[frame[t].key].used > capacity * One) =>
                frame'[t].new_token <= capacity * One
          /\ (/\ Decided(t)
              /\ frame[t].capacity = capacity
              /\ bucket[frame[t].key].used > capacity * One) =>
                /\ frame[t].new_token <= capacity * One
                /\ bucket' # bucket =>
                      bucket'[frame[t].key].used <= capacity * One - One]_vars

\* the stored tokens of a key exceed the capacity set since, and the next
\* evaluation of the key has clamped its candidate to that capacity
C10_Witness ==
    \E t \in Threads :
       /\ pc[t] = "decide"
       /\ frame[t].capacity = capacity
       /\ bucket[frame[t].key].used > capacity * One
       /\ frame[t].new_token = capacity * One

\* C11: the limiter's fill rate and capacity are never set to a value <= 0:
\* the constructor and the two updates reject such an argument.
C11_ConfigPositive == fill_rate > 0 /\ capacity > 0

\* C12: the lookup of lines 92-95 creates the bucket of a key once: a call
\* that finds the key stores nothing and evaluates the stored Token, a call
\* that does not find it adds Token(0, its timestamp) for its key and
\* evaluates that; so of the first calls for a never-seen key one creates
\* the entry and the others evaluate the same entry.
C12_SingleCreation ==
    [][\A t \in Threads :
          Refilled(t) =>
             LET k == frame[t].key
             IN /\ k \in DOMAIN bucket =>
                      /\ bucket' = bucket
                      /\ frame'[t].last_successful_token = bucket[k]
                /\ k \notin DOMAIN bucket =>
                      /\ bucket' = (k :> Token(0, frame[t].time_now)) @@ bucket
                      /\ frame'[t].last_successful_token = bucket'[k]]_vars

\* two first calls for a never-seen key were in flight together at
\* different times: one has created the entry and returned, the other
\* holds the lock and is about to look the key up
C12_Witness ==
    \E t \in Threads :
       /\ pc[t] = "refill"
       /\ frame[t].key \in DOMAIN bucket
       /\ bucket[frame[t].key].used = 0
       /\ bucket[frame[t].key].last_used_at > frame[t].time_now
       /\ Len(denials) = 1 /\ admitted = 0
       /\ denials[1].user_id = frame[t].key

\* C13: under fair scheduling every call returns: a thread that has entered
\* is_request_allowed gets back to its caller, on the allowed and on the
\* denied path, whoever holds the lock meanwhile.
C13_EveryCallReturns ==
    \A t \in Threads : (pc[t] # "idle") ~> (pc[t] = "idle")

\* a thread waits for the lock while the other is about to return on the
\* denied path
C13_Witness ==
    \E t1, t2 \in Threads :
       /\ pc[t1] = "acquire" /\ lock = t2
       /\ pc[t2] = "decide" /\ ~Allowed(frame[t2].new_token)

\* C18: the stored last_used_at of a key never decreases.
C18_LastUsedMonotone ==
    [][\A k \in DOMAIN bucket :
          bucket'[k].last_used_at >= bucket[k].last_used_at]_vars

\* ------------------------------------------------ FileManager properties
\* the file names owned by a user other than u
OwnedByOthers(u) == UNION {files_by_user[v] : v \in Users \ {u}}

\* C14: add_file_by_user(user, name, size) creates the file and records it
\* as owned by user exactly when user exists, name is not an existing file
\* and the sizes of user's files plus size are <= user's capacity;
\* otherwise it returns -1 and files, ownership and capacities stay as
\* they are.
C14_AddFileByUser ==
    [][\A u \in Users, f \in StoredNames, s \in FileSizes :
          add_file_by_user(u, f, s) =>
              IF /\ Has(user_cap, u)
                 /\ ~Has(files_by_id, f)
                 /\ Sum(files_by_id, files_by_user[u]) + s <= user_cap[u]
              THEN /\ files_by_id' = Put(files_by_id, f, s)
                   /\ files_by_user' = [files_by_user EXCEPT ![u] = @ \cup {f}]
                   /\ user_cap' = user_cap
                   /\ ret' = Returned(s)
              ELSE /\ ret' = Returned(-1)
                   /\ UNCHANGED <<files_by_id, files_by_user, user_cap>>]_allvars

\* a user filled exactly to its capacity by the file just added
C14_Witness ==
    \E u \in Users \ {"admin"} :
        /\ Has(user_cap, u)
        /\ files_by_user[u] = {"a", "b"}
        /\ Sum(files_by_id, files_by_user[u]) = user_cap[u]
        /\ BACKUP = <<>>
        /\ ret = Returned(1)

\* what the restore of u is to leave: the backed-up files no other user
\* owns with their backed-up sizes as the files of u, the files of u that
\* were not backed up gone, the files of the other users as they were
RestoredFrom(u) ==
    LET expected == {f \in BACKUP[u] : f.file_name \notin OwnedByOthers(u)}
    IN  /\ files_by_user'[u] = Names(expected)
        /\ \A f \in expected :
              /\ Has(files_by_id', f.file_name)
              /\ files_by_id'[f.file_name] = f.file_size
        /\ \A k \in files_by_user[u] \ Names(BACKUP[u]) : ~Has(files_by_id', k)
        /\ \A v \in Users \ {u} : files_by_user'[v] = files_by_user[v]
        /\ \A k \in OwnedByOthers(u) :
              /\ Has(files_by_id', k)
              /\ files_by_id'[k] = files_by_id[k]

\* C15: after restore(u) for a user with a backup, u's files are exactly
\* the backed-up files not owned by another user, each with its backed-up
\* size; the files of u that are not in the backup are removed; every file
\* owned by another user keeps its owner and size.
C15_Restore ==
    [][\A u \in BackupUsers :
          (Has(BACKUP, u) /\ restore(u)) => RestoredFrom(u)]_allvars

\* the same, for the users that exist when restore is called
C15_RestoreExistingUser ==
    [][\A u \in BackupUsers :
          (Has(BACKUP, u) /\ Has(user_cap, u) /\ restore(u)) => RestoredFrom(u)]_allvars

\* what merge_users(to_user, from_user) is to leave when both exist
Merged(to_user, from_user) ==
    /\ ~Has(user_cap', from_user)
    /\ files_by_user'[from_user] = {}
    /\ Has(user_cap', to_user)
    /\ user_cap'[to_user] = Plus(user_cap[to_user], user_cap[from_user])
    /\ files_by_user'[to_user] =
           files_by_user[to_user] \cup files_by_user[from_user]

\* C16: for every pair of existing users, after merge_users(to_user,
\* from_user) from_user no longer exists, to_user's capacity is the sum of
\* both capacities and to_user owns the union of both file sets; if either
\* user does not exist the call returns -1 and changes nothing.
C16_Merge ==
    [][\A to_user \in Users, from_user \in MergedUsers :
          merge_users(to_user, from_user) =>
              IF Has(user_cap, to_user) /\ Has(user_cap, from_user)
              THEN Merged(to_user, from_user)
              ELSE /\ ret' = Returned(-1)
                   /\ UNCHANGED <<files_by_id, user_cap, files_by_user, BACKUP>>]_allvars

\* the same, for two different users
C16_MergeDistinct ==
    [][\A to_user \in Users : \A from_user \in MergedUsers \ {to_user} :
          merge_users(to_user, from_user) =>
              IF Has(user_cap, to_user) /\ Has(user_cap, from_user)
              THEN Merged(to_user, from_user)
              ELSE /\ ret' = Returned(-1)
                   /\ UNCHANGED <<files_by_id, user_cap, files_by_user, BACKUP>>]_allvars

\* every file has at most one owner
OneOwner ==
    \A u, v \in Users : u # v => files_by_user[u] \cap files_by_user[v] = {}

\* every owned file is in the file table
OwnedExist == \A u \in Users : files_by_user[u] \subseteq DOMAIN files_by_id

\* the sizes of the files a user owns; a user without capacity entry has
\* capacity 0, the default of the defaultdict
Used(u) == Sum(WithDefaults(files_by_id, files_by_user[u]), files_by_user[u])
CapacityOf(u) == IF Has(user_cap, u) THEN user_cap[u] ELSE 0

WithinCapacity == \A u \in Users : Used(u) <= CapacityOf(u)

\* C19: in every state reached by add_user, create_file, add_file_by_user,
\* remove_file, merge_users, backup and restore, every file is owned by at
\* most one user, every owned file is in the file table, and the sizes of
\* the files of each user add up to at most the user's capacity.
C19_Ownership == OneOwner /\ OwnedExist /\ WithinCapacity

\* the first two parts alone
C19_OwnedOnceAndStored == OneOwner /\ OwnedExist

\* the default order: larger files first, files of one size by name
DefaultOrder(x, y) ==
    \/ x.file_size > y.file_size
    \/ x.file_size = y.file_size /\ StrLess(x.file_name, y.file_name)

\* the files of the file table
Files == {File(k, files_by_id[k]) : k \in DOMAIN files_by_id}

\* the elements of a list
Range(s) == {s[i] : i \in 1 .. Len(s)}

\* C17: list_n_files_by_default_order(n) returns the first min(n, number
\* of files) existing files in the order of file_size descending and, for
\* equal sizes, of file names ascending (lexicographic), whatever the files
\* are.
C17_DefaultOrder ==
    [][\A n \in TopNs :
          list_n_files_by_default_order(n) =>
              LET r == ret'.files
              IN  /\ Len(r) = Min(n, Cardinality(Files))
                  /\ Range(r) \subseteq Files
                  /\ \A i, j \in 1 .. Len(r) : i < j => DefaultOrder(r[i], r[j])
                  /\ \A x \in Range(r), y \in Files \ Range(r) :
                        DefaultOrder(x, y)]_allvars

\* two of three files listed, of one size, "a" before "ab"
C17_Witness ==
    /\ Cardinality(DOMAIN files_by_id) = 3
    /\ ret.files = <<File("a", files_by_id["a"]), File("ab", files_by_id["ab"])>>
    /\ files_by_id["a"] = files_by_id["ab"]
    /\ files_by_id["b"] < files_by_id["a"]

====
